---- MODULE Spec2Model ----
(***************************************************************************)
(* sloggcloud.Handler (src/sloggcloud/handler.go): a slog.Handler that     *)
(* renders records as Google Cloud Logging JSON lines.                     *)
(*                                                                         *)
(* Handlers live in a heap: a Handler holds two Go slices (attrs, groups), *)
(* each a header (array, len, cap) over a backing array that derived       *)
(* handlers may share.  opts and w are pointers every handler derived from *)
(* the same root shares, so they are single variables.                     *)
(***************************************************************************)
EXTENDS Integers, Sequences, FiniteSets, TLC

VARIABLES opts, given, handlers, attrArrays, groupArrays, made, origin,
          last, threads

vars == <<opts, given, handlers, attrArrays, groupArrays, made, origin,
          last, threads>>

-----------------------------------------------------------------------------
(* Bounds of the model *)

MaxHandlers == 3
MaxDerived == 6
MaxOptHandlers == 2
MaxAttrsPerCall == 1
MaxRecordAttrs == 1
NThreads == 2
MaxSetupHandlers == 4
BelowDebug == 1
AboveError == 1

-----------------------------------------------------------------------------
(* log/slog levels, as used by levelToSeverity and defaultOptions *)

LevelDebug == -4
LevelInfo == 0
LevelWarn == 4
LevelError == 8

-----------------------------------------------------------------------------
(* slog.Value and slog.Attr *)

IntValue(n) == [kind |-> "Int64", num |-> n, str |-> "", group |-> <<>>]
StringValue(s) == [kind |-> "String", num |-> 0, str |-> s, group |-> <<>>]
GroupValue(as) == [kind |-> "Group", num |-> 0, str |-> "", group |-> as]
AnyNil == [kind |-> "Any", num |-> 0, str |-> "", group |-> <<>>]

Attr(k, v) == [key |-> k, val |-> v]
ZeroAttr == Attr("", AnyNil)

(* JSON values handed to the encoder *)
JNum(n) == [t |-> "num", n |-> n, s |-> "", m |-> <<>>]
JStr(s) == [t |-> "str", n |-> 0, s |-> s, m |-> <<>>]
JObj(m) == [t |-> "obj", n |-> 0, s |-> "", m |-> m]

EmptyMap == [k \in {} |-> 0]

Put(m, k, v) == [x \in DOMAIN m \cup {k} |-> IF x = k THEN v ELSE m[x]]

-----------------------------------------------------------------------------
(* attrValue: slog.Value -> value for JSON marshalling *)

RECURSIVE attrValue(_)
RECURSIVE GroupMap(_, _)

GroupMap(as, m) ==
    IF as = <<>> THEN m
    ELSE GroupMap(Tail(as), Put(m, Head(as).key, attrValue(Head(as).val)))

attrValue(v) ==
    CASE v.kind = "Int64" -> JNum(v.num)
      [] v.kind = "String" -> JStr(v.str)
      [] v.kind = "Group" -> JObj(GroupMap(v.group, EmptyMap))
      [] OTHER -> JStr("<nil>")

-----------------------------------------------------------------------------
(* addAttr: insert one attribute into the map under the group path *)

SubMap(m, g) == IF g \in DOMAIN m /\ m[g].t = "obj" THEN m[g].m ELSE EmptyMap

RECURSIVE SetUnder(_, _, _)
SetUnder(m, groups, attr) ==
    IF Len(groups) = 1
    THEN Put(m, groups[1],
             JObj(Put(SubMap(m, groups[1]), attr.key, attrValue(attr.val))))
    ELSE Put(m, Head(groups),
             JObj(SetUnder(SubMap(m, Head(groups)), Tail(groups), attr)))

addAttr_Flat(attrs, groups, attr) ==
    IF attr = ZeroAttr THEN attrs
    ELSE Put(attrs, attr.key, attrValue(attr.val))

addAttr(attrs, groups, attr) ==
    IF attr = ZeroAttr THEN attrs
    ELSE IF Len(groups) > 0 THEN SetUnder(attrs, groups, attr)
    ELSE Put(attrs, attr.key, attrValue(attr.val))

RECURSIVE addAttrs(_, _, _)
addAttrs(m, groups, as) ==
    IF as = <<>> THEN m
    ELSE addAttrs(addAttr(m, groups, Head(as)), groups, Tail(as))

-----------------------------------------------------------------------------
(* levelToSeverity *)

levelToSeverity_WarnExclusive(level) ==
    CASE level >= LevelError -> "ERROR"
      [] level > LevelWarn /\ level < LevelError -> "WARNING"
      [] level >= LevelInfo /\ level <= LevelWarn -> "INFO"
      [] OTHER -> "DEBUG"

levelToSeverity(level) ==
    CASE level >= LevelError -> "ERROR"
      [] level >= LevelWarn /\ level < LevelError -> "WARNING"
      [] level >= LevelInfo /\ level < LevelWarn -> "INFO"
      [] OTHER -> "DEBUG"

-----------------------------------------------------------------------------
(* Go slices: the built-in append as used by WithAttrs and WithGroup *)

NilSlice == [arr |-> 0, len |-> 0, cap |-> 0]

(* capacity of the array append allocates when the old one is too small;   *)
(* for the element sizes and lengths used here the allocator's size        *)
(* classes do not round the result up further                              *)
GrowCap(newLen, oldCap) ==
    IF newLen > 2 * oldCap THEN newLen ELSE 2 * oldCap

Elems(s, arrays) == IF s.len = 0 THEN <<>> ELSE SubSeq(arrays[s.arr], 1, s.len)

(* result of append(s, xs...): the slice returned and the arrays after it *)
GoAppend(s, arrays, xs, zero) ==
    LET newLen == s.len + Len(xs) IN
    IF newLen <= s.cap
    THEN [slice |-> [arr |-> s.arr, len |-> newLen, cap |-> s.cap],
          arrays |-> [arrays EXCEPT ![s.arr] =
                         [i \in 1..s.cap |->
                             IF i > s.len /\ i <= newLen THEN xs[i - s.len]
                             ELSE @[i]]]]
    ELSE LET c == GrowCap(newLen, s.cap)
             old == Elems(s, arrays) IN
         [slice |-> [arr |-> Len(arrays) + 1, len |-> newLen, cap |-> c],
          arrays |-> Append(arrays,
                         [i \in 1..c |->
                             IF i <= s.len THEN old[i]
                             ELSE IF i <= newLen THEN xs[i - s.len]
                             ELSE zero])]

-----------------------------------------------------------------------------
(* options.go *)

defaultOptions ==
    [level |-> LevelInfo, addSource |-> FALSE, addTraceInfo |-> TRUE,
     projectID |-> "", program |-> ""]

WithLevel(level, o) == [o EXCEPT !.level = level]
WithSource(enabled, o) == [o EXCEPT !.addSource = enabled]
WithTraceInfo(enabled, o) == [o EXCEPT !.addTraceInfo = enabled]
WithProjectID(projectID, o) == [o EXCEPT !.projectID = projectID]

ApplyOption(opt, o) ==
    CASE opt.name = "WithLevel" -> WithLevel(opt.level, o)
      [] opt.name = "WithSource" -> WithSource(opt.flag, o)
      [] opt.name = "WithTraceInfo" -> WithTraceInfo(opt.flag, o)
      [] opt.name = "WithProjectID" -> WithProjectID(opt.id, o)

RECURSIVE ApplyOptions(_, _)
ApplyOptions(os, o) ==
    IF os = <<>> THEN o ELSE ApplyOptions(Tail(os), ApplyOption(Head(os), o))

Opt(name, level, flag, id) ==
    [name |-> name, level |-> level, flag |-> flag, id |-> id]

(* the option lists New is called with: each option absent or given once *)
RECURSIVE Pick(_)
Pick(choices) ==
    IF choices = <<>> THEN {<<>>}
    ELSE {h \o t : h \in Head(choices), t \in Pick(Tail(choices))}

OptionLists ==
    Pick(<< {<<>>} \cup {<<Opt("WithLevel", l, FALSE, "")>> :
                            l \in {LevelDebug, LevelWarn}},
            {<<>>, <<Opt("WithSource", 0, TRUE, "")>>},
            {<<>>, <<Opt("WithTraceInfo", 0, FALSE, "")>>},
            {<<>>, <<Opt("WithProjectID", 0, FALSE, "proj1")>>} >>)

-----------------------------------------------------------------------------
(* Handler state *)

HandlerIds == 1..Len(handlers)

Attrs(h) == Elems(handlers[h].attrs, attrArrays)
Groups(h) == Elems(handlers[h].groups, groupArrays)

NoCall == [op |-> "none"]

(* a caller goroutine: the handler it holds, the call it made, the handler *)
(* the call returned, the slice elements the call read and wrote, the      *)
(* attributes its Handle read                                              *)
NotStarted ==
    [h |-> 0, op |-> "none", ret |-> 0, reads |-> {}, writes |-> {},
     seen |-> <<>>]

(* New(w, opts...) *)
New(os) ==
    /\ opts = ApplyOptions(os, defaultOptions)
    /\ given = os
    /\ handlers = << [attrs |-> NilSlice, groups |-> NilSlice] >>
    /\ attrArrays = <<>>
    /\ groupArrays = <<>>
    /\ made = << [attrs |-> <<>>, groups |-> <<>>] >>
    /\ origin = << [op |-> "New", parent |-> 0, attrs |-> <<>>, name |-> ""] >>
    /\ last = NoCall
    /\ threads = [t \in 1..NThreads |-> NotStarted]

(* h.WithAttrs(attrs) *)
WithAttrs(h, as) ==
    /\ IF Len(as) = 0
       THEN /\ last' = [op |-> "WithAttrs", h |-> h, attrs |-> as, ret |-> h]
            /\ UNCHANGED <<handlers, attrArrays, made, origin>>
       ELSE LET r == GoAppend(handlers[h].attrs, attrArrays, as, ZeroAttr) IN
            /\ handlers' = Append(handlers,
                              [handlers[h] EXCEPT !.attrs = r.slice])
            /\ attrArrays' = r.arrays
            /\ made' = Append(made, [attrs |-> Attrs(h) \o as,
                                     groups |-> Groups(h)])
            /\ origin' = Append(origin, [op |-> "WithAttrs", parent |-> h,
                                         attrs |-> as, name |-> ""])
            /\ last' = [op |-> "WithAttrs", h |-> h, attrs |-> as,
                        ret |-> Len(handlers) + 1]
    /\ UNCHANGED <<opts, given, groupArrays>>

WithGroup_AppendsEmptyName(h, name) ==
    /\ LET r == GoAppend(handlers[h].groups, groupArrays, <<name>>, "") IN
       /\ handlers' = Append(handlers,
                         [handlers[h] EXCEPT !.groups = r.slice])
       /\ groupArrays' = r.arrays
       /\ made' = Append(made, [attrs |-> Attrs(h),
                                groups |-> Groups(h) \o <<name>>])
       /\ origin' = Append(origin, [op |-> "WithGroup", parent |-> h,
                                    attrs |-> <<>>, name |-> name])
       /\ last' = [op |-> "WithGroup", h |-> h, name |-> name,
                   ret |-> Len(handlers) + 1]
    /\ UNCHANGED <<opts, given, attrArrays>>

(* h.WithGroup(name) *)
WithGroup(h, name) ==
    /\ IF name = ""
       THEN /\ last' = [op |-> "WithGroup", h |-> h, name |-> name, ret |-> h]
            /\ UNCHANGED <<handlers, groupArrays, made, origin>>
       ELSE LET r == GoAppend(handlers[h].groups, groupArrays, <<name>>, "") IN
            /\ handlers' = Append(handlers,
                              [handlers[h] EXCEPT !.groups = r.slice])
            /\ groupArrays' = r.arrays
            /\ made' = Append(made, [attrs |-> Attrs(h),
                                     groups |-> Groups(h) \o <<name>>])
            /\ origin' = Append(origin, [op |-> "WithGroup", parent |-> h,
                                         attrs |-> <<>>, name |-> name])
            /\ last' = [op |-> "WithGroup", h |-> h, name |-> name,
                        ret |-> Len(handlers) + 1]
    /\ UNCHANGED <<opts, given, attrArrays>>

-----------------------------------------------------------------------------
(* h.Enabled(ctx, level) *)

EnabledResult_Strict(level) == level > opts.level

EnabledResult(level) == level >= opts.level

Enabled(h, level) ==
    /\ last' = [op |-> "Enabled", h |-> h, level |-> level,
                ret |-> EnabledResult(level)]
    /\ UNCHANGED <<opts, given, handlers, attrArrays, groupArrays, made,
                   origin>>

-----------------------------------------------------------------------------
(* h.Handle(ctx, r) *)

SourceLocationKey == "logging.googleapis.com/sourceLocation"
TraceKey == "logging.googleapis.com/trace"
SpanIdKey == "logging.googleapis.com/spanId"

(* r.PC: 0, a program counter with a frame, one without *)
PcNone == 0
PcResolvable == 1
PcUnresolvable == 2

(* frames.Next() of runtime.CallersFrames([]uintptr{pc}) *)
Frame(pc) ==
    IF pc = PcResolvable
    THEN [file |-> "main.go", line |-> 15, function |-> "main.main"]
    ELSE [file |-> "", line |-> 0, function |-> ""]

TraceIDHex == "01020304050607080102030405060708"
SpanIDHex == "0102030405060708"

SourceAttrs(r) ==
    IF opts.addSource /\ r.pc # 0
    THEN LET frame == Frame(r.pc) IN
         << [key |-> SourceLocationKey,
             val |-> JObj(Put(Put(Put(EmptyMap,
                          "file", JStr(frame.file)),
                          "line", JNum(frame.line)),
                          "function", JStr(frame.function)))] >>
    ELSE <<>>

TraceAttrs_AlwaysPrefixed(ctx) ==
    IF opts.addTraceInfo /\ ctx = "valid"
    THEN << [key |-> TraceKey,
             val |-> JStr("projects/" \o opts.projectID \o "/traces/"
                          \o TraceIDHex)],
            [key |-> SpanIdKey, val |-> JStr(SpanIDHex)] >>
    ELSE <<>>

TraceAttrs(ctx) ==
    IF opts.addTraceInfo /\ ctx = "valid"
    THEN LET traceIDStr ==
                 IF opts.projectID # ""
                 THEN "projects/" \o opts.projectID \o "/traces/" \o TraceIDHex
                 ELSE TraceIDHex IN
         << [key |-> TraceKey, val |-> JStr(traceIDStr)],
            [key |-> SpanIdKey, val |-> JStr(SpanIDHex)] >>
    ELSE <<>>

MergeRecordAttrs_KeepExisting(existingAttrs, recordAttrs) ==
    [k \in DOMAIN existingAttrs \cup DOMAIN recordAttrs |->
        IF k \in DOMAIN existingAttrs THEN existingAttrs[k]
        ELSE recordAttrs[k]]

(* for k, v := range recordAttrs { existingAttrs[k] = v } *)
MergeRecordAttrs(existingAttrs, recordAttrs) ==
    [k \in DOMAIN existingAttrs \cup DOMAIN recordAttrs |->
        IF k \in DOMAIN recordAttrs THEN recordAttrs[k] ELSE existingAttrs[k]]

HandleAttrs_AttributesFirst(hattrs, hgroups, r, ctx) ==
    LET predefined == Len(hattrs) > 0 \/ Len(hgroups) > 0
        attrMap == addAttrs(EmptyMap, hgroups, hattrs)
        a1 == IF predefined
              THEN << [key |-> "attributes", val |-> JObj(attrMap)] >>
              ELSE <<>>
        a2 == a1 \o SourceAttrs(r) \o TraceAttrs(ctx)
        recordAttrs == addAttrs(EmptyMap, hgroups, r.attrs)
    IN  IF DOMAIN recordAttrs # {}
        THEN IF ~predefined
             THEN Append(a2, [key |-> "attributes",
                              val |-> JObj(recordAttrs)])
             ELSE LET lastAttr == a2[Len(a2)] IN
                  IF lastAttr.key = "attributes" /\ lastAttr.val.t = "obj"
                  THEN [a2 EXCEPT ![Len(a2)].val =
                           JObj(MergeRecordAttrs(lastAttr.val.m, recordAttrs))]
                  ELSE a2
        ELSE a2

(* the attrs slice Handle passes to logger.LogAttrs *)
HandleAttrs(hattrs, hgroups, r, ctx) ==
    LET a1 == SourceAttrs(r) \o TraceAttrs(ctx)
        predefined == Len(hattrs) > 0 \/ Len(hgroups) > 0
        attrMap == addAttrs(EmptyMap, hgroups, hattrs)
        a2 == IF predefined
              THEN Append(a1, [key |-> "attributes", val |-> JObj(attrMap)])
              ELSE a1
        recordAttrs == addAttrs(EmptyMap, hgroups, r.attrs)
    IN  IF DOMAIN recordAttrs # {}
        THEN IF ~predefined
             THEN Append(a2, [key |-> "attributes",
                              val |-> JObj(recordAttrs)])
             ELSE LET lastAttr == a2[Len(a2)] IN
                  IF lastAttr.key = "attributes" /\ lastAttr.val.t = "obj"
                  THEN [a2 EXCEPT ![Len(a2)].val =
                           JObj(MergeRecordAttrs(lastAttr.val.m, recordAttrs))]
                  ELSE a2
        ELSE a2

(* the JSON object slog.JSONHandler encodes for one record: time, the      *)
(* level key replaced by severity (ReplaceAttr), msg, then the attrs       *)
RECURSIVE PutAll(_, _)
PutAll(m, as) ==
    IF as = <<>> THEN m ELSE PutAll(Put(m, Head(as).key, Head(as).val), Tail(as))

JSONLine(level, msg, attrs) ==
    PutAll(Put(Put(Put(EmptyMap,
               "time", JStr("now")),
               "severity", JStr(levelToSeverity(level))),
               "msg", JStr(msg)),
           attrs)

NoLine == EmptyMap

LogAttrs_GateExclusive(level, msg, attrs, fail) ==
    IF level > opts.level
    THEN [attempts |-> 1, line |-> JSONLine(level, msg, attrs),
          written |-> ~fail]
    ELSE [attempts |-> 0, line |-> NoLine, written |-> FALSE]

(* logger.LogAttrs: the inner handler's level gate, then one Write whose   *)
(* error the logger drops                                                  *)
LogAttrs(level, msg, attrs, fail) ==
    IF level >= opts.level
    THEN [attempts |-> 1, line |-> JSONLine(level, msg, attrs),
          written |-> ~fail]
    ELSE [attempts |-> 0, line |-> NoLine, written |-> FALSE]

Handle(h, r, ctx, fail) ==
    LET attrs == HandleAttrs(Attrs(h), Groups(h), r, ctx)
        out == LogAttrs(r.level, r.msg, attrs, fail) IN
    /\ last' = [op |-> "Handle", h |-> h, rec |-> r, ctx |-> ctx,
                fail |-> fail, attempts |-> out.attempts,
                line |-> out.line, written |-> out.written, ret |-> "nil"]
    /\ UNCHANGED <<opts, given, handlers, attrArrays, groupArrays, made,
                   origin>>

(* control is back with the caller, which has taken the result *)
Return ==
    /\ last # NoCall
    /\ last' = NoCall
    /\ UNCHANGED <<opts, given, handlers, attrArrays, groupArrays, made,
                   origin, threads>>

-----------------------------------------------------------------------------
(* Inputs *)

X1 == Attr("x", IntValue(1))
X2 == Attr("x", IntValue(2))

PAttrDom == {X1, X2}
GroupNames == {"", "g"}

RECURSIVE SeqsUpTo(_, _)
SeqsUpTo(S, n) ==
    IF n = 0 THEN {<<>>}
    ELSE LET shorter == SeqsUpTo(S, n - 1) IN
         shorter \cup {Append(s, x) : s \in {t \in shorter : Len(t) = n - 1},
                                      x \in S}

(* every list up to the bound, a list holding only the zero attribute and  *)
(* a list that repeats a key                                               *)
AttrLists ==
    SeqsUpTo(PAttrDom, MaxAttrsPerCall) \cup {<<ZeroAttr>>, <<X1, X2>>}
DeriveLists == SeqsUpTo(PAttrDom, MaxAttrsPerCall)

-----------------------------------------------------------------------------
(* Derivation only: handlers derived from one root by WithAttrs/WithGroup *)

InitDerive == New(<<>>)

DeriveAttrs ==
    \E h \in HandlerIds, as \in DeriveLists :
        Len(handlers) < MaxDerived /\ WithAttrs(h, as) /\ UNCHANGED threads

DeriveGroup ==
    \E h \in HandlerIds, name \in GroupNames :
        Len(handlers) < MaxDerived /\ WithGroup(h, name) /\ UNCHANGED threads

NextDerive == DeriveAttrs \/ DeriveGroup

SpecDerive == InitDerive /\ [][NextDerive]_vars

-----------------------------------------------------------------------------
(* Attribute rendering: derivation and Handle under the default options *)

X3 == Attr("x", IntValue(3))
Y1 == Attr("y", StringValue("b"))
G1 == Attr("grp", GroupValue(<<Attr("a", StringValue("s")), ZeroAttr>>))

RAttrDom == {X3, Y1, ZeroAttr, G1}
RecordAttrLists == SeqsUpTo(RAttrDom, MaxRecordAttrs)

Record(level, as, pc) == [level |-> level, msg |-> "m", attrs |-> as, pc |-> pc]

Init == New(<<>>)

CallWithAttrs ==
    \E h \in HandlerIds, as \in AttrLists :
        /\ last = NoCall
        /\ Len(handlers) < MaxHandlers
        /\ WithAttrs(h, as)
        /\ UNCHANGED threads

CallWithGroup ==
    \E h \in HandlerIds, name \in GroupNames :
        /\ last = NoCall
        /\ Len(handlers) < MaxHandlers
        /\ WithGroup(h, name)
        /\ UNCHANGED threads

CallHandle ==
    \E h \in HandlerIds, as \in RecordAttrLists :
        /\ last = NoCall
        /\ Handle(h, Record(LevelInfo, as, PcNone), "none", FALSE)
        /\ UNCHANGED threads

Next == CallWithAttrs \/ CallWithGroup \/ CallHandle \/ Return

Spec == Init /\ [][Next]_vars

-----------------------------------------------------------------------------
(* Options, levels and the sink: New with options, Enabled and Handle *)

LevelDom == (LevelDebug - BelowDebug)..(LevelError + AboveError)

InitOpts == \E os \in OptionLists : New(os)

OptWithAttrs ==
    \E h \in HandlerIds, as \in {<<>>, <<X1>>} :
        /\ last = NoCall
        /\ Len(handlers) < MaxOptHandlers
        /\ WithAttrs(h, as)
        /\ UNCHANGED threads

OptWithGroup ==
    \E h \in HandlerIds, name \in GroupNames :
        /\ last = NoCall
        /\ Len(handlers) < MaxOptHandlers
        /\ WithGroup(h, name)
        /\ UNCHANGED threads

OptEnabled ==
    \E h \in HandlerIds, level \in LevelDom :
        /\ last = NoCall
        /\ Enabled(h, level)
        /\ UNCHANGED threads

(* calls at every level with a sink that may fail, and calls at the named  *)
(* levels with every program counter, context and attribute choice        *)
OptCalls ==
    {[rec |-> Record(level, <<>>, PcNone), ctx |-> "none", fail |-> fail] :
        level \in LevelDom, fail \in BOOLEAN}
    \cup
    {[rec |-> Record(level, as, pc), ctx |-> ctx, fail |-> FALSE] :
        level \in {LevelDebug, LevelWarn}, as \in {<<>>, <<Y1>>},
        pc \in {PcNone, PcResolvable, PcUnresolvable},
        ctx \in {"none", "invalid", "valid"}}

OptHandle ==
    \E h \in HandlerIds, c \in OptCalls :
        /\ last = NoCall
        /\ Handle(h, c.rec, c.ctx, c.fail)
        /\ UNCHANGED threads

NextOpts == OptWithAttrs \/ OptWithGroup \/ OptEnabled \/ OptHandle \/ Return

SpecOpts == InitOpts /\ [][NextOpts]_vars

-----------------------------------------------------------------------------
(* Concurrent callers: handlers are derived from the root, then goroutines *)
(* that each hold a different one call it once, without synchronization    *)

(* the elements of a backing array: <<kind, array, index>> *)
Locs(kind, arr, from, to) == {<<kind, arr, i>> : i \in from..to}

(* elements append(s, xs...) reads: the old ones, when it has to copy *)
AppendReads(kind, s, n) ==
    IF s.len + n <= s.cap THEN {} ELSE Locs(kind, s.arr, 1, s.len)

(* elements append(s, xs...) writes; next is the array a copy would get *)
AppendWrites(kind, s, n, next) ==
    IF s.len + n <= s.cap
    THEN Locs(kind, s.arr, s.len + 1, s.len + n)
    ELSE Locs(kind, next, 1, s.len + n)

(* elements Handle reads: all of h.attrs and of h.groups *)
HandleReads(h) ==
    Locs("attrs", handlers[h].attrs.arr, 1, handlers[h].attrs.len)
    \cup Locs("groups", handlers[h].groups.arr, 1, handlers[h].groups.len)

NoneStarted == \A t \in 1..NThreads : threads[t].h = 0
CanStart(t, h) ==
    /\ threads[t].h = 0
    /\ \A u \in 1..NThreads : threads[u].h # h /\ threads[u].ret # h

ConcLists == {<<X1>>, <<X2>>, <<X1, X2>>}

InitConc == New(<<>>)

SetupWithAttrs ==
    \E h \in HandlerIds, as \in ConcLists :
        /\ NoneStarted
        /\ Len(handlers) < MaxSetupHandlers
        /\ WithAttrs(h, as) /\ UNCHANGED threads

SetupWithGroup ==
    \E h \in HandlerIds :
        /\ NoneStarted
        /\ Len(handlers) < MaxSetupHandlers
        /\ WithGroup(h, "g") /\ UNCHANGED threads

ThreadWithAttrs ==
    \E t \in 1..NThreads, h \in HandlerIds, as \in {<<X1>>, <<X2>>} :
        /\ CanStart(t, h)
        /\ WithAttrs(h, as)
        /\ threads' = [threads EXCEPT ![t] =
              [h |-> h, op |-> "WithAttrs", ret |-> Len(handlers) + 1,
               reads |-> AppendReads("attrs", handlers[h].attrs, Len(as)),
               writes |-> AppendWrites("attrs", handlers[h].attrs, Len(as),
                                       Len(attrArrays) + 1),
               seen |-> <<>>]]

ThreadWithGroup ==
    \E t \in 1..NThreads, h \in HandlerIds :
        /\ CanStart(t, h)
        /\ WithGroup(h, "g")
        /\ threads' = [threads EXCEPT ![t] =
              [h |-> h, op |-> "WithGroup", ret |-> Len(handlers) + 1,
               reads |-> AppendReads("groups", handlers[h].groups, 1),
               writes |-> AppendWrites("groups", handlers[h].groups, 1,
                                       Len(groupArrays) + 1),
               seen |-> <<>>]]

ThreadHandle ==
    \E t \in 1..NThreads, h \in HandlerIds :
        /\ CanStart(t, h)
        /\ Handle(h, Record(LevelInfo, <<>>, PcNone), "none", FALSE)
        /\ threads' = [threads EXCEPT ![t] =
              [h |-> h, op |-> "Handle", ret |-> 0, reads |-> HandleReads(h),
               writes |-> {}, seen |-> Attrs(h)]]

NextConc ==
    \/ SetupWithAttrs \/ SetupWithGroup
    \/ ThreadWithAttrs \/ ThreadWithGroup \/ ThreadHandle

SpecConc == InitConc /\ [][NextConc]_vars

-----------------------------------------------------------------------------
(* Vocabulary of the properties *)

NonZero(as) == {i \in 1..Len(as) : as[i] # ZeroAttr}
KeysOf(as) == {as[i].key : i \in NonZero(as)}

(* i is the last non-empty attribute of as with key k *)
IsLastWithKey(as, i, k) ==
    /\ i \in NonZero(as)
    /\ as[i].key = k
    /\ \A j \in NonZero(as) : j > i => as[j].key # k

(* the attribute tree of an emitted line *)
AttrTree(line) ==
    IF "attributes" \in DOMAIN line /\ line["attributes"].t = "obj"
    THEN line["attributes"].m
    ELSE EmptyMap

(* the object a group path leads to in a tree, if there is one *)
RECURSIVE ObjAt(_, _)
ObjAt(tree, path) ==
    IF path = <<>> THEN [ok |-> TRUE, m |-> tree]
    ELSE IF Head(path) \in DOMAIN tree /\ tree[Head(path)].t = "obj"
         THEN ObjAt(tree[Head(path)].m, Tail(path))
         ELSE [ok |-> FALSE, m |-> EmptyMap]

HasKeyAt(tree, path, k) ==
    LET o == ObjAt(tree, path) IN o.ok /\ k \in DOMAIN o.m

(* the reference tree: every attribute of as inserted in order at the leaf *)
(* of path, a later one replacing an earlier one with the same key         *)
RECURSIVE Nest(_, _)
Nest(path, leaf) ==
    IF path = <<>> THEN leaf
    ELSE [k \in {Head(path)} |-> JObj(Nest(Tail(path), leaf))]

ReferenceTree(path, as) ==
    IF NonZero(as) = {} THEN EmptyMap
    ELSE Nest(path,
              [k \in KeysOf(as) |->
                  attrValue(as[CHOOSE i \in NonZero(as) :
                                   IsLastWithKey(as, i, k)].val)])

Handled == last.op = "Handle"
Emitted == last.op = "Handle" /\ last.attempts = 1

-----------------------------------------------------------------------------
(* C1: every handler still has exactly the persistent attributes and the   *)
(* group path it was created with (its parent's at derivation time         *)
(* followed by what it was given), whatever was derived afterwards         *)
C1_DerivedHandlersKeepTheirSequences ==
    \A h \in HandlerIds :
        /\ Attrs(h) = made[h].attrs
        /\ Groups(h) = made[h].groups

(* C2: the attribute tree Handle emits is the reference tree of the        *)
(* persistent attributes followed by the record's, at the leaf of the path *)
C2_TreeIsReferenceTree ==
    Emitted =>
        AttrTree(last.line) =
            ReferenceTree(Groups(last.h), Attrs(last.h) \o last.rec.attrs)

(* C3: attributes attached by WithAttrs before a WithGroup(g) are rendered *)
(* at the level they were attached at, not inside the object for g         *)
C3_EarlierAttrsStayOutsideGroup ==
    (/\ Emitted
     /\ last.rec.attrs = <<>>
     /\ origin[last.h].op = "WithGroup"
     /\ origin[origin[last.h].parent].op = "WithAttrs")
    => LET p == origin[last.h].parent
           tree == AttrTree(last.line) IN
       \A k \in KeysOf(origin[p].attrs) :
           /\ HasKeyAt(tree, made[p].groups, k)
           /\ ~HasKeyAt(tree, made[last.h].groups, k)

(* C4: a Handle call whose write to the sink fails returns a non-nil       *)
(* error, after a single write attempt                                     *)
C4_WriteFailureIsReturned ==
    (Handled /\ last.rec.level >= opts.level /\ last.fail)
    => (last.ret # "nil" /\ last.attempts = 1)

(* C5: Enabled(level) is true exactly when level >= the configured minimum *)
(* (INFO unless WithLevel was given); Handle of a record below the minimum *)
(* writes nothing to the sink and changes nothing else                     *)
C5Step ==
    /\ (\A i \in 1..Len(given) : given[i].name # "WithLevel")
           => opts.level = LevelInfo
    /\ last'.op = "Enabled" => (last'.ret <=> last'.level >= opts.level)
    /\ (last'.op = "Handle" /\ last'.rec.level < opts.level)
           => /\ last'.attempts = 0
              /\ ~last'.written
              /\ UNCHANGED <<handlers, attrArrays, groupArrays, opts>>

C5_LevelGate == [][C5Step]_vars

C5_Witness ==
    /\ Handled
    /\ last.rec.level < opts.level
    /\ last.rec.level >= LevelInfo

(* C7: at the leaf of the group path a key carried by the record has the   *)
(* record's value, and any other key there has the value of the last       *)
(* persistent attribute with that key                                      *)
C7_LastWriteWins ==
    Emitted =>
        LET P == Attrs(last.h)
            R == last.rec.attrs
            leaf == ObjAt(AttrTree(last.line), Groups(last.h)) IN
        /\ \A k \in KeysOf(R) :
               /\ leaf.ok /\ k \in DOMAIN leaf.m
               /\ \E i \in NonZero(R) :
                      IsLastWithKey(R, i, k) /\ leaf.m[k] = attrValue(R[i].val)
        /\ leaf.ok =>
               \A k \in DOMAIN leaf.m \ KeysOf(R) :
                   \E i \in NonZero(P) :
                       IsLastWithKey(P, i, k) /\ leaf.m[k] = attrValue(P[i].val)

C7_Witness ==
    /\ Emitted
    /\ Attrs(last.h) = <<X1, X2>>
    /\ last.rec.attrs = <<X3>>
    /\ AttrTree(last.line)["x"] = JNum(3)

C9_AttrsAreTopLevelKeys ==
    (Emitted /\ Groups(last.h) = <<>>)
    => LET keys == KeysOf(Attrs(last.h)) \cup KeysOf(last.rec.attrs) IN
       /\ keys \subseteq DOMAIN last.line
       /\ DOMAIN last.line \subseteq
              keys \cup {"severity", "msg", "time", SourceLocationKey,
                         TraceKey, SpanIdKey}

(* C10: the severity Handle emits is the tier of the record's level: one   *)
(* tier higher at each of the thresholds INFO, WARN and ERROR, for every   *)
(* integer level                                                           *)
SeverityTiers == <<"DEBUG", "INFO", "WARNING", "ERROR">>

TierOf(level) ==
    SeverityTiers[1 + Cardinality({t \in {LevelInfo, LevelWarn, LevelError} :
                                       level >= t})]

C10_SeverityOfLevel ==
    Emitted => last.line["severity"] = JStr(TierOf(last.rec.level))

C10_Witness ==
    /\ Emitted
    /\ last.rec.level = LevelWarn
    /\ last.line["severity"] = JStr("WARNING")

(* C6: goroutines holding different handlers never touch the same slice    *)
(* element with one of them writing it, and the attributes each Handle     *)
(* reads are those its handler was created with                            *)
C6_NoInterference ==
    \A t \in 1..NThreads :
        /\ \A u \in 1..NThreads \ {t} :
               threads[t].writes
                   \cap (threads[u].reads \cup threads[u].writes) = {}
        /\ threads[t].op = "Handle" => threads[t].seen = made[threads[t].h].attrs

(* C11: with trace info enabled, a record that passes the level gate is    *)
(* emitted and Handle returns nil; with a valid span the line carries the  *)
(* bare hex span id and the trace id, prefixed by projects/<id>/traces/    *)
(* exactly when the project id is non-empty; with no span or an invalid    *)
(* one the line carries neither key                                        *)
C11_TraceKeys ==
    (Handled /\ opts.addTraceInfo /\ last.rec.level >= opts.level)
    => /\ last.attempts = 1
       /\ last.ret = "nil"
       /\ IF last.ctx = "valid"
          THEN /\ SpanIdKey \in DOMAIN last.line
               /\ last.line[SpanIdKey] = JStr(SpanIDHex)
               /\ TraceKey \in DOMAIN last.line
               /\ last.line[TraceKey] =
                      IF opts.projectID = ""
                      THEN JStr(TraceIDHex)
                      ELSE JStr("projects/" \o opts.projectID
                                \o "/traces/" \o TraceIDHex)
          ELSE /\ SpanIdKey \notin DOMAIN last.line
               /\ TraceKey \notin DOMAIN last.line

C11_Witness ==
    /\ Emitted
    /\ opts.addTraceInfo
    /\ opts.projectID = ""
    /\ last.ctx = "valid"
    /\ last.line[TraceKey] = JStr(TraceIDHex)
    /\ last.line[SpanIdKey] = JStr(SpanIDHex)

(* C12: a Handle call whose record level is at or above the configured     *)
(* minimum makes exactly one Write on the sink, for every handler and      *)
(* every option list                                                       *)
C12_OneWritePerCall ==
    (Handled /\ last.rec.level >= opts.level) => last.attempts = 1

C12_Witness ==
    /\ Handled
    /\ last.rec.level = opts.level
    /\ opts.level = LevelDebug
    /\ Groups(last.h) = <<"g">>
    /\ last.attempts = 1
    /\ last.written

(* C13: WithAttrs with an empty list and WithGroup with an empty name      *)
(* change no handler and no option, and the handler they return has the    *)
(* receiver's attributes and group path and hands the logger the same      *)
(* attributes as the receiver for every record                             *)
C13Step ==
    ((last'.op = "WithAttrs" /\ last'.attrs = <<>>)
        \/ (last'.op = "WithGroup" /\ last'.name = ""))
    => /\ UNCHANGED <<opts, handlers, attrArrays, groupArrays>>
       /\ last'.ret \in 1..Len(handlers)
       /\ LET before == [attrs |-> Attrs(last'.h), groups |-> Groups(last'.h)]
              after == [attrs |-> Elems(handlers'[last'.ret].attrs,
                                        attrArrays'),
                        groups |-> Elems(handlers'[last'.ret].groups,
                                         groupArrays')] IN
          /\ after = before
          /\ \A as \in RecordAttrLists :
                 HandleAttrs(after.attrs, after.groups,
                             Record(LevelInfo, as, PcNone), "none")
                     = HandleAttrs(before.attrs, before.groups,
                                   Record(LevelInfo, as, PcNone), "none")

C13_NoOpDerivations == [][C13Step]_vars

C13_Witness ==
    /\ last.op = "WithGroup"
    /\ last.name = ""
    /\ last.ret = last.h
    /\ Attrs(last.h) = <<X1>>

(* C14: no object of the emitted attribute tree, at any depth, has the     *)
(* key of the zero attribute                                               *)
RECURSIVE HasZeroKey(_)
HasZeroKey(m) ==
    \/ ZeroAttr.key \in DOMAIN m
    \/ \E k \in DOMAIN m : m[k].t = "obj" /\ HasZeroKey(m[k].m)

C14_ZeroAttrNeverEmitted ==
    Emitted => ~HasZeroKey(AttrTree(last.line))

(* C15: a record that passes the level gate is emitted and Handle returns  *)
(* nil; the line carries the source location exactly when addSource is set *)
(* and the record's program counter resolves to a frame, and then it is    *)
(* that frame's file, line and function                                    *)
C15_SourceLocationOnlyForResolvableFrame ==
    (Handled /\ last.rec.level >= opts.level)
    => /\ last.attempts = 1
       /\ last.ret = "nil"
       /\ SourceLocationKey \in DOMAIN last.line
              <=> (opts.addSource /\ last.rec.pc = PcResolvable)
       /\ SourceLocationKey \in DOMAIN last.line
              => LET frame == Frame(last.rec.pc) IN
                 last.line[SourceLocationKey] =
                     JObj(Put(Put(Put(EmptyMap,
                          "file", JStr(frame.file)),
                          "line", JNum(frame.line)),
                          "function", JStr(frame.function)))

(* C16: when the record has a non-empty attribute and the handler has      *)
(* persistent attributes or a group path, the list Handle passes to the    *)
(* logger is non-empty and ends with the "attributes" map, which holds     *)
(* every top-level entry of the record's tree and, under every other key,  *)
(* the entry of the persistent attributes' tree; an emitted line carries   *)
(* that map                                                                *)
C16_RecordAttrsMergedIntoLastAttr ==
    (/\ Handled
     /\ NonZero(last.rec.attrs) # {}
     /\ (Len(Attrs(last.h)) > 0 \/ Len(Groups(last.h)) > 0))
    => LET attrs == HandleAttrs(Attrs(last.h), Groups(last.h),
                                last.rec, last.ctx)
           fromRecord == ReferenceTree(Groups(last.h), last.rec.attrs)
           fromHandler == ReferenceTree(Groups(last.h), Attrs(last.h)) IN
       /\ Len(attrs) >= 1
       /\ attrs[Len(attrs)].key = "attributes"
       /\ attrs[Len(attrs)].val.t = "obj"
       /\ LET m == attrs[Len(attrs)].val.m IN
          /\ DOMAIN m = DOMAIN fromRecord \cup DOMAIN fromHandler
          /\ \A k \in DOMAIN fromRecord : m[k] = fromRecord[k]
          /\ \A k \in DOMAIN fromHandler \ DOMAIN fromRecord :
                 m[k] = fromHandler[k]
       /\ Emitted => /\ "attributes" \in DOMAIN last.line
                     /\ last.line["attributes"] = attrs[Len(attrs)].val

C16_Witness ==
    /\ Emitted
    /\ opts.addSource
    /\ last.rec.pc = PcResolvable
    /\ last.ctx = "valid"
    /\ opts.addTraceInfo
    /\ Attrs(last.h) = <<X1>>
    /\ last.rec.attrs = <<Y1>>
    /\ AttrTree(last.line) = Put(Put(EmptyMap, "x", JNum(1)), "y", JStr("b"))

====
